---- MODULE Spec2Model ----
(***************************************************************************)
(* The session-bootstrap and review-queue state machine of the two web     *)
(* clients of limenxi07/tele-bot:                                          *)
(*   "ui" : eventsort-ui (App.tsx + services/api.ts, single-card stack),   *)
(*   "fe" : frontend (App.jsx + hooks/useAuth.js + hooks/useEvents.js +    *)
(*          api/client.js, list view on @tanstack/react-query).            *)
(* One page load of one of the two clients is one behaviour.               *)
(***************************************************************************)
EXTENDS Integers, Sequences, FiniteSets

\* ------------------------------------------------------------------ bounds
\* Largest event id the server hands out; fetched lists hold distinct ids.
MaxEvents == 2
\* Cap on the requests of one page load: a swipe is issued only while the
\* log has room for it and for what its completion issues.
MaxRequests == 6

\* How often the bootstrap trigger fires in one page load: once, and once
\* more under a duplicate mount (React.StrictMode runs the mount effect of
\* a new component twice).
MountRuns == 2

\* ------------------------------------------------------------- JS values
\* A JS value is <<type, payload>>; Str(n) is the decimal string of n.
Null == <<"null", 0>>
Str(n) == <<"string", n>>
Num(n) == <<"number", n>>

\* Number.prototype.toString / the implicit String(v) of Storage.setItem.
JsToString(v) == IF v[1] = "number" THEN Str(v[2]) ELSE v

\* JS truthiness of what Storage.getItem returns: null is falsy, a
\* non-empty string (every decimal string, "0" included) is truthy, a
\* number is truthy unless it is 0.
Truthy(v) ==
  CASE v[1] = "null" -> FALSE
    [] v[1] = "string" -> TRUE
    [] OTHER -> v[2] # 0

NoHeader == <<"absent", Null>>
Bearer(s) == <<"Bearer", s>>

\* The user ids the server may map the token to (0 is the falsy number).
Users == {0, 1}
EventIds == 1..MaxEvents

\* What GET /events may answer: a sequence of events with distinct ids.
\* The server holds events 1..MaxEvents in that order and answers with
\* those not yet dropped from the front of its list (all, some, none).
EventLists ==
  {[k \in 1..(MaxEvents - d) |-> k + d] : d \in 0..MaxEvents}

VARIABLES
  variant,         \* "ui" or "fe": which client this page load runs
  token,           \* the `token` query parameter: "none" (absent) or "tok"
  rqVersion,       \* major version of @tanstack/react-query the fe build uses
  tokenUser,       \* the user id the server maps the token to
  mounts,          \* how often the bootstrap trigger has fired
  credStore,       \* Storage item 'user_id' (localStorage / sessionStorage)
  credWrites,      \* setItem('user_id', ...) calls of this page load
  reqs,            \* every request issued, in order, with its status
  events,          \* ui: useState events
  currentIndex,    \* ui: useState currentIndex
  loading,         \* ui: useState loading
  error,           \* ui: useState error ("null" when unset)
  authenticated,   \* ui: useState authenticated
  swiping,         \* ui: useState swiping
  swipeDirection,  \* ui: useState swipeDirection ("null" when unset)
  timers,          \* ui: pending setTimeout(..., 300) callbacks
  loads,           \* ui: setEvents calls so far (the snapshot now held)
  rendered,        \* ui: the state the last committed render closed over
  lastGesture,     \* ui: what the last handleSwipe call did
  authQ,           \* fe: query ['auth', token]
  eventsQ,         \* fe: query ['events', 'upcoming']
  statsQ,          \* fe: query ['stats']
  dashboardMounted, \* fe: <Dashboard /> is mounted (its queries are observed)
  fee,             \* the fee of the event an EventCard is given
  feeShown         \* what that EventCard rendered for the fee

envVars == <<variant, token, rqVersion, tokenUser>>
uiVars == <<events, currentIndex, loading, error, authenticated, swiping,
            swipeDirection, timers, loads, rendered, lastGesture>>
feVars == <<authQ, eventsQ, statsQ, dashboardMounted>>
feeVars == <<fee, feeShown>>
vars == <<envVars, mounts, credStore, credWrites, reqs, uiVars, feVars,
          feeVars>>

\* ---------------------------------------------------------------- requests
\* kind: "exchange", "events", "stats" or "swipe"; ev: the event id in the
\* path of a swipe; pos: the cursor the swipe was issued at; hdr: the
\* Authorization header sent; writes: the credential writes of this page
\* load that preceded the request; snap: the fetched snapshot a swipe of
\* the card client was made on (0 otherwise).
Req(kind, ev, pos, hdr) ==
  [kind |-> kind, ev |-> ev, pos |-> pos, hdr |-> hdr, st |-> "pending",
   writes |-> credWrites, snap |-> 0]

ReqIdx(log, kind) == {i \in DOMAIN log : log[i].kind = kind}
Pending(log, kind) == {i \in ReqIdx(log, kind) : log[i].st = "pending"}
Settle(log, i, st) == [log EXCEPT ![i].st = st]

\* Interceptor with the truthiness test taken on the number, not on the
\* stored string: user id 0 gets no header.
Interceptor_NumericTruthiness(store) ==
  IF store[1] # "null" /\ store[2] # 0 THEN Bearer(store) ELSE NoHeader

\* api.interceptors.request.use: reads the store, attaches the header when
\* the stored value is truthy.
Interceptor(store) == IF Truthy(store) THEN Bearer(store) ELSE NoHeader

\* ------------------------------------------------------------- ui: render
\* The branch of App's render that a state takes.
UiView(l, e, a, i, evs) ==
  IF l THEN "loading"
  ELSE IF e # "null" THEN "access-denied"
  ELSE IF ~a THEN "loading"
  ELSE IF i >= Len(evs) THEN "caught-up"
  ELSE "reviewing"

Snapshot(l, e, a, sw, i, evs) ==
  [view |-> UiView(l, e, a, i, evs), swiping |-> sw, currentIndex |-> i,
   events |-> evs, snap |-> loads]

\* ------------------------------------------------------- fe: react-query
\* A query of the QueryClient: status ("pending" until it has data or an
\* error; v4 calls it 'loading'), fetching (fetchStatus = 'fetching'),
\* data (defined when hasData), invalidated (isInvalidated).
NewQuery(data0) ==
  [status |-> "pending", fetching |-> FALSE, hasData |-> FALSE,
   data |-> data0, invalidated |-> FALSE]

\* useQuery's isLoading: v4 status === 'loading'; v5 isPending && isFetching.
IsLoading(q) ==
  IF rqVersion = 4 THEN q.status = "pending"
  ELSE q.status = "pending" /\ q.fetching

IsError(q) == q.status = "error"

\* useAuth's `enabled: !!token`.
AuthEnabled == token # "none"

\* The result useQuery hands the first render, before the observer has
\* subscribed: a query that will fetch on mount is reported as fetching.
Optimistic(q, enabled, subscribed) ==
  IF ~subscribed /\ enabled /\ ~q.hasData /\ q.status = "pending"
  THEN [q EXCEPT !.fetching = TRUE]
  ELSE q

\* What AppContent and Dashboard render.  "crash" is the TypeError of
\* `auth.username` on an undefined auth result, which unmounts the tree.
FeView ==
  LET auth == Optimistic(authQ, AuthEnabled, mounts > 0)
      evs == Optimistic(eventsQ, TRUE, dashboardMounted)
      stats == Optimistic(statsQ, TRUE, dashboardMounted)
  IN IF IsLoading(auth) THEN "loading"
     ELSE IF IsError(auth) THEN "access-denied"
     ELSE IF ~auth.hasData THEN "crash"
     ELSE IF IsLoading(evs) \/ IsLoading(stats) THEN "loading"
     ELSE IF evs.hasData /\ Len(evs.data) > 0 THEN "reviewing"
     ELSE "caught-up"

\* AppContent's render returns the tree that holds <Dashboard />.
ReachesDashboard ==
  /\ ~IsLoading(Optimistic(authQ, AuthEnabled, mounts > 0))
  /\ ~IsError(authQ)
  /\ authQ.hasData

\* A mounting observer starts a fetch when the query is enabled, no fetch
\* of it is in flight (a second observer shares the running one), and it
\* has no data or its data is stale (never, under staleTime: Infinity).
FetchOnMount(q, enabled, staleTimeInfinity) ==
  /\ enabled
  /\ ~q.fetching
  /\ (~q.hasData \/ q.invalidated \/ ~staleTimeInfinity)

\* ------------------------------------------------------ EventCard: fee
\* What an EventCard shows for the fee: nothing, "Free", or "$<n>".
Unrendered == <<"unrendered", 0>>
Absent == <<"absent", 0>>
Free == <<"Free", 0>>
Dollar(n) == <<"$", n>>

\* eventsort-ui's EventCard: {event.fee !== null && event.fee > 0 && ...}.
UiEventCardFee(f) ==
  IF f[1] # "null" /\ f[2] > 0 THEN Dollar(f[2]) ELSE Absent

\* frontend's EventCard: {event.fee !== null && (... event.fee === 0 ?
\* 'Free' : `$${event.fee}`)}.
FeEventCardFee(f) ==
  IF f[1] # "null"
  THEN (IF f[2] = 0 THEN Free ELSE Dollar(f[2]))
  ELSE Absent

\* The state of a freshly constructed page, the card's fee left open.
InitPage ==
  /\ variant \in {"ui", "fe"}
  /\ token \in {"none", "tok"}
  /\ rqVersion \in (IF variant = "fe" THEN {4, 5} ELSE {0})
  /\ tokenUser \in Users
  /\ mounts = 0
  /\ credStore \in {Null, Str(1)}
  /\ credWrites = 0
  /\ reqs = <<>>
  /\ events = <<>>
  /\ currentIndex = 0
  /\ loading = TRUE
  /\ error = "null"
  /\ authenticated = FALSE
  /\ swiping = FALSE
  /\ swipeDirection = "null"
  /\ timers = 0
  /\ loads = 0
  /\ rendered = Snapshot(TRUE, "null", FALSE, FALSE, 0, <<>>)
  /\ lastGesture = "none"
  /\ authQ = NewQuery(0)
  /\ eventsQ = NewQuery(<<>>)
  /\ statsQ = NewQuery(0)
  /\ dashboardMounted = FALSE
  /\ feeShown = Unrendered

Init ==
  /\ InitPage
  /\ fee = Null

\* The mount effect of App runs authenticate(). React StrictMode runs the
\* effect of a freshly mounted component twice, back to back, so a further
\* run starts before any response has arrived.
UiMount ==
  /\ variant = "ui"
  /\ mounts < MountRuns
  /\ \A i \in DOMAIN reqs : reqs[i].st = "pending"
  /\ mounts' = mounts + 1
  /\ IF token = "none"
     THEN /\ error' = "no-token"
          /\ loading' = FALSE
          /\ reqs' = reqs
     ELSE /\ reqs' = Append(reqs, Req("exchange", 0, 0, NoHeader))
          /\ UNCHANGED <<error, loading>>
  /\ UNCHANGED <<envVars, feeVars, loads, credStore, credWrites, events, currentIndex,
                 authenticated, swiping, swipeDirection, timers, rendered,
                 lastGesture, feVars>>

\* UiValidateOk with getEvents called before the credential is stored.
UiValidateOk_FetchFirst(i) ==
  /\ variant = "ui"
  /\ i \in Pending(reqs, "exchange")
  /\ reqs' = Append(Settle(reqs, i, "ok"),
                    Req("events", 0, 0, Interceptor(credStore)))
  /\ credStore' = JsToString(Num(tokenUser))
  /\ credWrites' = credWrites + 1
  /\ authenticated' = TRUE
  /\ UNCHANGED <<envVars, feeVars, loads, mounts, events, currentIndex, loading, error,
                 swiping, swipeDirection, timers, rendered, lastGesture,
                 feVars>>

\* authenticate(), after `await validateToken(token)` resolved: stores the
\* credential, sets authenticated and calls getEvents('upcoming') through
\* the api instance (so through its request interceptor).
UiValidateOk(i) ==
  /\ variant = "ui"
  /\ i \in Pending(reqs, "exchange")
  /\ credStore' = JsToString(Num(tokenUser))
  /\ credWrites' = credWrites + 1
  /\ authenticated' = TRUE
  /\ reqs' = Append(Settle(reqs, i, "ok"),
                    [Req("events", 0, 0, Interceptor(credStore'))
                       EXCEPT !.writes = credWrites'])
  /\ UNCHANGED <<envVars, feeVars, loads, mounts, events, currentIndex, loading, error,
                 swiping, swipeDirection, timers, rendered, lastGesture,
                 feVars>>

\* The catch block of authenticate(): err.response?.data?.error when the
\* server sent one ("rejected"), else the generic message ("transport").
AuthCatch(why) ==
  /\ error' = IF why = "rejected" THEN "server-error" ELSE "generic"
  /\ loading' = FALSE

\* authenticate(), `await validateToken(token)` rejected.
UiValidateFail(i, why) ==
  /\ variant = "ui"
  /\ i \in Pending(reqs, "exchange")
  /\ reqs' = Settle(reqs, i, "failed")
  /\ AuthCatch(why)
  /\ UNCHANGED <<envVars, feeVars, loads, mounts, credStore, credWrites, events,
                 currentIndex, authenticated, swiping, swipeDirection,
                 timers, rendered, lastGesture, feVars>>

\* authenticate(), after `await getEvents('upcoming')` resolved.
UiEventsOk(i, list) ==
  /\ variant = "ui"
  /\ i \in Pending(reqs, "events")
  /\ reqs' = Settle(reqs, i, "ok")
  /\ events' = list
  /\ currentIndex' = 0
  /\ loading' = FALSE
  /\ loads' = loads + 1
  /\ UNCHANGED <<envVars, feeVars, mounts, credStore, credWrites, error,
                 authenticated, swiping, swipeDirection, timers, rendered,
                 lastGesture, feVars>>

\* authenticate(), `await getEvents('upcoming')` rejected: the same catch.
UiEventsFail(i, why) ==
  /\ variant = "ui"
  /\ i \in Pending(reqs, "events")
  /\ reqs' = Settle(reqs, i, "failed")
  /\ AuthCatch(why)
  /\ UNCHANGED <<envVars, feeVars, loads, mounts, credStore, credWrites, events,
                 currentIndex, authenticated, swiping, swipeDirection,
                 timers, rendered, lastGesture, feVars>>

\* React commits a render of the current state: the view, and the values
\* the handleSwipe closure and the buttons' disabled attribute close over.
\* State set from a network completion or a timer is rendered in a later
\* task, so user input can arrive before this step.
UiRender ==
  /\ variant = "ui"
  /\ rendered # Snapshot(loading, error, authenticated, swiping,
                         currentIndex, events)
  /\ rendered' = Snapshot(loading, error, authenticated, swiping,
                          currentIndex, events)
  /\ UNCHANGED <<envVars, feeVars, loads, mounts, credStore, credWrites, reqs, events,
                 currentIndex, loading, error, authenticated, swiping,
                 swipeDirection, timers, lastGesture, feVars>>

\* SwipeGuard without the in-flight test.
SwipeGuard_NoInFlight(sw, idx, evs) == idx >= Len(evs)

\* The guard of handleSwipe, on the values its closure holds.
SwipeGuard(sw, idx, evs) == sw \/ idx >= Len(evs)

\* HandleSwipe that sets the guard and the direction but posts nothing.
HandleSwipe_NoRequest(direction) ==
  /\ variant = "ui"
  /\ rendered.view = "reviewing"
  /\ IF SwipeGuard(rendered.swiping, rendered.currentIndex, rendered.events)
     THEN /\ lastGesture' = "ignored"
          /\ UNCHANGED <<swiping, swipeDirection, rendered>>
     ELSE /\ lastGesture' = "sent"
          /\ swiping' = TRUE
          /\ swipeDirection' = direction
          /\ rendered' = Snapshot(loading, error, authenticated, swiping',
                                  currentIndex, events)
  /\ UNCHANGED <<envVars, feeVars, loads, mounts, credStore, credWrites, reqs,
                 events, currentIndex, loading, error, authenticated, timers,
                 feVars>>

\* handleSwipe(direction) up to its await, called by onSwipedLeft/Right or
\* by a button's onClick of the committed reviewing view (a disabled
\* button delivers no click; the swipe handlers stay attached).  State set
\* inside a discrete input event is rendered before the next event is
\* dispatched, so the step ends with the committed render.
HandleSwipe(direction) ==
  /\ variant = "ui"
  /\ rendered.view = "reviewing"
  /\ IF SwipeGuard(rendered.swiping, rendered.currentIndex, rendered.events)
     THEN /\ lastGesture' = "ignored"
          /\ UNCHANGED <<reqs, swiping, swipeDirection, rendered>>
     ELSE /\ Len(reqs) < MaxRequests
          /\ lastGesture' = "sent"
          /\ swiping' = TRUE
          /\ swipeDirection' = direction
          /\ reqs' = Append(reqs,
                 [Req("swipe", rendered.events[rendered.currentIndex + 1],
                      rendered.currentIndex, Interceptor(credStore))
                    EXCEPT !.snap = rendered.snap])
          /\ rendered' = Snapshot(loading, error, authenticated, swiping',
                                  currentIndex, events)
  /\ UNCHANGED <<envVars, feeVars, loads, mounts, credStore, credWrites, events,
                 currentIndex, loading, error, authenticated, timers,
                 feVars>>

\* UiSwipeOk that clears the guard when it starts the timer.
UiSwipeOk_ReleaseEarly(i) ==
  /\ variant = "ui"
  /\ i \in Pending(reqs, "swipe")
  /\ reqs' = Settle(reqs, i, "ok")
  /\ timers' = timers + 1
  /\ swiping' = FALSE
  /\ UNCHANGED <<envVars, feeVars, loads, mounts, credStore, credWrites,
                 events, currentIndex, loading, error, authenticated,
                 swipeDirection, rendered, lastGesture, feVars>>

\* handleSwipe after `await swipeEvent(...)` resolved: starts the 300 ms
\* timer; swiping stays set.
UiSwipeOk(i) ==
  /\ variant = "ui"
  /\ i \in Pending(reqs, "swipe")
  /\ reqs' = Settle(reqs, i, "ok")
  /\ timers' = timers + 1
  /\ UNCHANGED <<envVars, feeVars, loads, mounts, credStore, credWrites, events,
                 currentIndex, loading, error, authenticated, swiping,
                 swipeDirection, rendered, lastGesture, feVars>>

\* UiTimerFire that releases the guard without advancing the cursor.
UiTimerFire_NoAdvance ==
  /\ variant = "ui"
  /\ timers > 0
  /\ timers' = timers - 1
  /\ swipeDirection' = "null"
  /\ swiping' = FALSE
  /\ UNCHANGED <<envVars, feeVars, loads, mounts, credStore, credWrites,
                 reqs, events, currentIndex, loading, error, authenticated,
                 rendered, lastGesture, feVars>>

\* The setTimeout callback of handleSwipe.
UiTimerFire ==
  /\ variant = "ui"
  /\ timers > 0
  /\ timers' = timers - 1
  /\ currentIndex' = currentIndex + 1
  /\ swipeDirection' = "null"
  /\ swiping' = FALSE
  /\ UNCHANGED <<envVars, feeVars, loads, mounts, credStore, credWrites, reqs, events,
                 loading, error, authenticated, rendered, lastGesture,
                 feVars>>

\* UiSwipeFail that treats the failed position as resolved.
UiSwipeFail_Advance(i) ==
  /\ variant = "ui"
  /\ i \in Pending(reqs, "swipe")
  /\ reqs' = Settle(reqs, i, "failed")
  /\ currentIndex' = currentIndex + 1
  /\ swipeDirection' = "null"
  /\ swiping' = FALSE
  /\ UNCHANGED <<envVars, feeVars, loads, mounts, credStore, credWrites, events, loading,
                 error, authenticated, timers, rendered, lastGesture,
                 feVars>>

\* The catch block of handleSwipe.
UiSwipeFail(i) ==
  /\ variant = "ui"
  /\ i \in Pending(reqs, "swipe")
  /\ reqs' = Settle(reqs, i, "failed")
  /\ swipeDirection' = "null"
  /\ swiping' = FALSE
  /\ UNCHANGED <<envVars, feeVars, loads, mounts, credStore, credWrites, events,
                 currentIndex, loading, error, authenticated, timers,
                 rendered, lastGesture, feVars>>

\* --------------------------------------------------------- fe: actions
\* AppContent mounts: the useAuth observer subscribes.
FeMount ==
  /\ variant = "fe"
  /\ mounts < MountRuns
  /\ \A i \in DOMAIN reqs : reqs[i].st = "pending"
  /\ mounts' = mounts + 1
  /\ IF FetchOnMount(authQ, AuthEnabled, TRUE)
     THEN /\ authQ' = [authQ EXCEPT !.fetching = TRUE]
          /\ reqs' = Append(reqs,
                            Req("exchange", 0, 0, Interceptor(credStore)))
     ELSE UNCHANGED <<authQ, reqs>>
  /\ UNCHANGED <<envVars, feeVars, credStore, credWrites, uiVars, eventsQ, statsQ,
                 dashboardMounted>>

\* useAuth's queryFn after `await api.post('/auth/validate-token')`.
FeAuthOk(i) ==
  /\ variant = "fe"
  /\ i \in Pending(reqs, "exchange")
  /\ reqs' = Settle(reqs, i, "ok")
  /\ credStore' = JsToString(Num(tokenUser))
  /\ credWrites' = credWrites + 1
  /\ authQ' = [authQ EXCEPT !.status = "success", !.fetching = FALSE,
                            !.hasData = TRUE, !.data = tokenUser]
  /\ UNCHANGED <<envVars, feeVars, mounts, uiVars, eventsQ, statsQ, dashboardMounted>>

\* useAuth's queryFn threw; `retry: false` settles the query in error.
FeAuthFail(i) ==
  /\ variant = "fe"
  /\ i \in Pending(reqs, "exchange")
  /\ reqs' = Settle(reqs, i, "failed")
  /\ authQ' = [authQ EXCEPT !.status = "error", !.fetching = FALSE]
  /\ UNCHANGED <<envVars, feeVars, mounts, credStore, credWrites, uiVars, eventsQ,
                 statsQ, dashboardMounted>>

\* AppContent renders <Dashboard />: useEvents('upcoming') and useStats()
\* subscribe and fetch.
FeRenderDashboard ==
  /\ variant = "fe"
  /\ ReachesDashboard
  /\ ~dashboardMounted
  /\ dashboardMounted' = TRUE
  /\ LET fe == FetchOnMount(eventsQ, TRUE, FALSE)
         fs == FetchOnMount(statsQ, TRUE, FALSE)
         r1 == IF fe
               THEN Append(reqs, Req("events", 0, 0, Interceptor(credStore)))
               ELSE reqs
     IN /\ reqs' = IF fs
                   THEN Append(r1, Req("stats", 0, 0, Interceptor(credStore)))
                   ELSE r1
        /\ eventsQ' = [eventsQ EXCEPT !.fetching = @ \/ fe]
        /\ statsQ' = [statsQ EXCEPT !.fetching = @ \/ fs]
  /\ UNCHANGED <<envVars, feeVars, mounts, credStore, credWrites, uiVars, authQ>>

\* useEvents' queryFn resolved.
FeEventsOk(i, list) ==
  /\ variant = "fe"
  /\ i \in Pending(reqs, "events")
  /\ reqs' = Settle(reqs, i, "ok")
  /\ eventsQ' = [status |-> "success", fetching |-> FALSE, hasData |-> TRUE,
                 data |-> list, invalidated |-> FALSE]
  /\ UNCHANGED <<envVars, feeVars, mounts, credStore, credWrites, uiVars, authQ,
                 statsQ, dashboardMounted>>

\* useEvents' queryFn failed for good (react-query's own retries over).
FeEventsFail(i) ==
  /\ variant = "fe"
  /\ i \in Pending(reqs, "events")
  /\ reqs' = Settle(reqs, i, "failed")
  /\ eventsQ' = [eventsQ EXCEPT !.status = "error", !.fetching = FALSE]
  /\ UNCHANGED <<envVars, feeVars, mounts, credStore, credWrites, uiVars, authQ,
                 statsQ, dashboardMounted>>

\* The count GET /stats answers now: the decisions the server recorded.
ServerStats(log) ==
  Cardinality({k \in ReqIdx(log, "swipe") : log[k].st = "ok"})

\* useStats' queryFn resolved with stats n.
FeStatsOk(i, n) ==
  /\ variant = "fe"
  /\ i \in Pending(reqs, "stats")
  /\ reqs' = Settle(reqs, i, "ok")
  /\ statsQ' = [status |-> "success", fetching |-> FALSE, hasData |-> TRUE,
                data |-> n, invalidated |-> FALSE]
  /\ UNCHANGED <<envVars, feeVars, mounts, credStore, credWrites, uiVars, authQ,
                 eventsQ, dashboardMounted>>

\* useStats' queryFn failed for good.
FeStatsFail(i) ==
  /\ variant = "fe"
  /\ i \in Pending(reqs, "stats")
  /\ reqs' = Settle(reqs, i, "failed")
  /\ statsQ' = [statsQ EXCEPT !.status = "error", !.fetching = FALSE]
  /\ UNCHANGED <<envVars, feeVars, mounts, credStore, credWrites, uiVars, authQ,
                 eventsQ, dashboardMounted>>

\* The position of event e in list (0-based), or Len(list) when absent.
IndexOf(list, e) ==
  IF \E k \in DOMAIN list : list[k] = e
  THEN (CHOOSE k \in DOMAIN list : list[k] = e) - 1
  ELSE Len(list)

\* useSwipeEvent's mutationFn up to its await: mutate({eventId, interested})
\* by a component under Dashboard, for an event of the fetched list.  The
\* hook holds no in-flight guard.
FeSwipe(e) ==
  /\ variant = "fe"
  /\ dashboardMounted
  /\ eventsQ.hasData
  /\ \E k \in DOMAIN eventsQ.data : eventsQ.data[k] = e
  /\ Len(reqs) + Cardinality(Pending(reqs, "swipe")) + 2 <= MaxRequests
  /\ reqs' = Append(reqs, Req("swipe", e, IndexOf(eventsQ.data, e),
                              Interceptor(credStore)))
  /\ UNCHANGED <<envVars, feeVars, mounts, credStore, credWrites, uiVars, feVars>>

\* queryClient.invalidateQueries({ queryKey: ['events'] }) on the query
\* q with key k: a query whose key starts with 'events' is marked
\* invalidated; others are left alone.
Invalidate(q, k) ==
  IF k = "events" THEN [q EXCEPT !.invalidated = TRUE] ELSE q

\* useSwipeEvent's onSuccess.  An invalidated query with a mounted
\* observer is refetched at once; a fetch of it still in flight is
\* cancelled (its response is dropped).
FeSwipeOk(i) ==
  /\ variant = "fe"
  /\ i \in Pending(reqs, "swipe")
  /\ eventsQ' = [Invalidate(eventsQ, "events") EXCEPT !.fetching = TRUE]
  /\ statsQ' = Invalidate(statsQ, "stats")
  /\ LET settled == Settle(reqs, i, "ok")
         dropped == [k \in DOMAIN settled |->
                       IF k \in Pending(settled, "events")
                       THEN [settled[k] EXCEPT !.st = "cancelled"]
                       ELSE settled[k]]
     IN reqs' = Append(dropped, Req("events", 0, 0, Interceptor(credStore)))
  /\ UNCHANGED <<envVars, feeVars, mounts, credStore, credWrites, uiVars, authQ,
                 dashboardMounted>>

\* useSwipeEvent's mutationFn threw: onSuccess does not run.
FeSwipeFail(i) ==
  /\ variant = "fe"
  /\ i \in Pending(reqs, "swipe")
  /\ reqs' = Settle(reqs, i, "failed")
  /\ UNCHANGED <<envVars, feeVars, mounts, credStore, credWrites, uiVars, feVars>>

Failures == {"rejected", "transport"}
Directions == {"left", "right"}

Next ==
  \/ UiMount
  \/ \E i \in DOMAIN reqs : UiValidateOk(i)
  \/ \E i \in DOMAIN reqs, why \in Failures : UiValidateFail(i, why)
  \/ \E i \in DOMAIN reqs, list \in EventLists : UiEventsOk(i, list)
  \/ \E i \in DOMAIN reqs, why \in Failures : UiEventsFail(i, why)
  \/ UiRender
  \/ \E d \in Directions : HandleSwipe(d)
  \/ \E i \in DOMAIN reqs : UiSwipeOk(i)
  \/ UiTimerFire
  \/ \E i \in DOMAIN reqs : UiSwipeFail(i)
  \/ FeMount
  \/ \E i \in DOMAIN reqs : FeAuthOk(i)
  \/ \E i \in DOMAIN reqs : FeAuthFail(i)
  \/ FeRenderDashboard
  \/ \E i \in DOMAIN reqs, list \in EventLists : FeEventsOk(i, list)
  \/ \E i \in DOMAIN reqs : FeEventsFail(i)
  \/ \E i \in DOMAIN reqs : FeStatsOk(i, ServerStats(reqs))
  \/ \E i \in DOMAIN reqs : FeStatsFail(i)
  \/ \E e \in EventIds : FeSwipe(e)
  \/ \E i \in DOMAIN reqs : FeSwipeOk(i)
  \/ \E i \in DOMAIN reqs : FeSwipeFail(i)

\* ------------------------------------------------------------ properties
\* The view the current state renders, in either client.
View ==
  IF variant = "ui"
  THEN UiView(loading, error, authenticated, currentIndex, events)
  ELSE FeView

Authenticated(log) == {i \in DOMAIN log : log[i].kind # "exchange"}
Succeeded(log, kind) == {i \in ReqIdx(log, kind) : log[i].st = "ok"}
Failed(log, kind) == {i \in ReqIdx(log, kind) : log[i].st = "failed"}

\* C1: in the card client no queue position ever has two decision-recording
\* requests outstanding at once; a gesture made while one is pending sends
\* nothing.
C1_AtMostOneInFlight ==
  variant = "ui" =>
    \A p \in 0..MaxEvents :
      Cardinality({i \in Pending(reqs, "swipe") : reqs[i].pos = p}) <= 1

\* C1 witness: a second gesture arrived while the first request was pending
\* and was ignored.
C1_Witness ==
  /\ variant = "ui"
  /\ lastGesture = "ignored"
  /\ Pending(reqs, "swipe") # {}

\* C2 as claimed: the cursor never decreases and never exceeds the length
\* of the fetched sequence.
C2_CursorMonotoneBounded ==
  [][variant = "ui" =>
       /\ currentIndex' >= currentIndex
       /\ currentIndex' <= Len(events')]_vars

\* C3 as claimed: one page load issues at most one token-exchange request.
C3_SingleExchange == Cardinality(ReqIdx(reqs, "exchange")) <= 1

\* C4 as claimed: without a token, once bootstrap has run no request was
\* issued and the client shows the access-denied state.
C4_NoTokenTerminal ==
  (token = "none" /\ mounts > 0) =>
    (reqs = <<>> /\ View = "access-denied")

\* C5 as claimed: a step that records a successful swipe leaves both the
\* events query and the stats query marked stale.
C5_InvalidationCoherence ==
  [][(variant = "fe" /\ ServerStats(reqs') > ServerStats(reqs)) =>
       (eventsQ'.invalidated /\ statsQ'.invalidated)]_vars

\* C6: the step that handles a failed decision-recording request leaves
\* the cursor and the queue as they were, releases the guard, issues no
\* request, starts no timer and touches no cached query.
C6_FailedSwipeUnresolved ==
  [][\A i \in DOMAIN reqs :
       (reqs[i].kind = "swipe" /\ reqs[i].st = "pending"
          /\ reqs'[i].st = "failed") =>
         /\ currentIndex' = currentIndex
         /\ events' = events
         /\ swiping' = FALSE
         /\ swipeDirection' = "null"
         /\ timers' = timers
         /\ Len(reqs') = Len(reqs)
         /\ eventsQ' = eventsQ
         /\ statsQ' = statsQ]_vars

\* C6 witness: after a failed request the same event, at the same
\* position, was swiped again.
C6_Witness ==
  \E i, j \in ReqIdx(reqs, "swipe") :
    /\ i < j
    /\ reqs[i].st = "failed"
    /\ reqs[j].pos = reqs[i].pos
    /\ reqs[j].ev = reqs[i].ev
    /\ currentIndex = reqs[i].pos
    /\ variant = "ui"

\* C7: every events, stats or swipe request was issued after a credential
\* write of this page load.
C7_CredentialBeforeGateway ==
  \A i \in Authenticated(reqs) : reqs[i].writes >= 1

\* C7 witness: all three kinds of authenticated request have been issued.
C7_Witness ==
  /\ ReqIdx(reqs, "events") # {}
  /\ ReqIdx(reqs, "stats") # {}
  /\ ReqIdx(reqs, "swipe") # {}

\* C8 as claimed: once a token exchange has failed the client shows the
\* access-denied state and issues no events, stats or swipe request.
C8_AuthFailureBlocksFetches ==
  [][Failed(reqs, "exchange") # {} =>
       /\ View' = "access-denied"
       /\ \A k \in DOMAIN reqs' \ DOMAIN reqs : reqs'[k].kind = "exchange"]_vars

\* C9 as claimed: the credential store changes only in the one step of a
\* page load that completes a token exchange successfully.
C9_WriteOnce ==
  [][(credStore' # credStore \/ credWrites' # credWrites) =>
       /\ credWrites = 0
       /\ credWrites' = 1
       /\ \E i \in Pending(reqs, "exchange") : reqs'[i].st = "ok"]_vars

\* C10: every events, stats or swipe request carries the header
\* `Bearer <credential>`, the credential being the stored string of the
\* user id this page load's token exchange returned.
C10_GatewayHeader ==
  \A i \in Authenticated(reqs) :
    /\ reqs[i].hdr = Bearer(credStore)
    /\ credStore = Str(tokenUser)

\* C10 witness: in the list client a swipe was sent for the user whose id
\* is 0, after an exchange request that itself carried a credential left
\* by an earlier page load.
C10_Witness ==
  /\ tokenUser = 0
  /\ variant = "fe"
  /\ \E i \in ReqIdx(reqs, "swipe") : reqs[i].hdr = Bearer(Str(0))
  /\ \E i \in ReqIdx(reqs, "exchange") : reqs[i].hdr # NoHeader

\* C11 as claimed: once a token exchange has settled, no further exchange
\* request is issued, and the client stays in the outcome it produced: not
\* access-denied after a success, access-denied after a failure.
C11_NoRetry ==
  [][(Succeeded(reqs, "exchange") \cup Failed(reqs, "exchange")) # {} =>
       /\ \A k \in DOMAIN reqs' \ DOMAIN reqs : reqs'[k].kind # "exchange"
       /\ Succeeded(reqs, "exchange") # {} => View' # "access-denied"
       /\ Failed(reqs, "exchange") # {} => View' = "access-denied"]_vars

\* C13 as claimed: in the card client every event before the cursor has
\* had a decision-recording request issued for its own id, and no event
\* after the cursor has had one.
C13_QueueSnapshot ==
  variant = "ui" =>
    \A k \in DOMAIN events :
      /\ k - 1 < currentIndex =>
           \E i \in ReqIdx(reqs, "swipe") : reqs[i].ev = events[k]
      /\ k - 1 > currentIndex =>
           ~\E i \in ReqIdx(reqs, "swipe") : reqs[i].ev = events[k]

\* C14: in the card client, within one fetched snapshot, an event whose
\* decision-recording request succeeded gets no further such request and
\* is not the card offered for a decision again (the card of a running
\* swipe, guard set, takes no decision).
C14_ExactlyOnce ==
  variant = "ui" =>
    /\ \A i, j \in ReqIdx(reqs, "swipe") :
         (i < j /\ reqs[i].ev = reqs[j].ev /\ reqs[i].snap = reqs[j].snap)
           => reqs[i].st # "ok"
    /\ (rendered.view = "reviewing" /\ ~rendered.swiping) =>
         ~\E i \in Succeeded(reqs, "swipe") :
            /\ reqs[i].ev = rendered.events[rendered.currentIndex + 1]
            /\ reqs[i].snap = rendered.snap

\* C14 witness: after a successful swipe and its delay the next event of
\* the same snapshot is on screen, open for a decision.
C14_Witness ==
  /\ variant = "ui"
  /\ rendered.view = "reviewing"
  /\ ~rendered.swiping
  /\ \E i \in Succeeded(reqs, "swipe") :
       /\ reqs[i].snap = rendered.snap
       /\ rendered.currentIndex = reqs[i].pos + 1

\* C15 as claimed: while the transition delay of a successful swipe runs,
\* the in-flight guard is already clear.
C15_GuardClearedAtDelayStart ==
  variant = "ui" => (timers > 0 => ~swiping)

\* C15 as amended: the guard stays set for the whole transition delay, and
\* the timer callback that ends the delay clears it (and swipeDirection)
\* in the step that advances the cursor by one.
C15_GuardHeldThroughDelay ==
  /\ [](timers > 0 => swiping)
  /\ [][timers' < timers =>
          /\ ~swiping'
          /\ swipeDirection' = "null"
          /\ currentIndex' = currentIndex + 1]_vars

\* C15 witness: a swipe has succeeded and its delay is running, guard set.
C15_Witness ==
  /\ timers > 0
  /\ swiping
  /\ \E i \in Succeeded(reqs, "swipe") : reqs[i].pos = currentIndex

\* C16: in every reachable state of either client the rendered view is one
\* of loading, access-denied, error, caught-up or reviewing; the render
\* never fails and never shows nothing.
C16_NamedStates ==
  View \in {"loading", "access-denied", "error", "caught-up", "reviewing"}

\* C17: once the token exchange has succeeded, a kind of data (events or
\* stats) whose fetch failed and was never fetched successfully leaves the
\* client in a loading or error view: not access-denied, caught-up or
\* reviewing.
C17_FetchFailureSurfaced ==
  \A kind \in {"events", "stats"} :
    (/\ Succeeded(reqs, "exchange") # {}
     /\ Failed(reqs, "exchange") = {}
     /\ Failed(reqs, kind) # {}
     /\ Succeeded(reqs, kind) = {})
      => View \in {"loading", "error"}

\* The card client has fetched its queue and the cursor stands at its end.
Exhausted ==
  /\ variant = "ui"
  /\ Succeeded(reqs, "events") # {}
  /\ currentIndex = Len(events)

\* C18: once the cursor equals the length of the fetched sequence (an empty
\* one included) the card client shows caught-up, and unless a new queue
\* load arrives every step keeps it exhausted: no decision-recording
\* request is issued and cursor and guard stay as they are.
C18_ExhaustionTerminal ==
  /\ [](Exhausted => View = "caught-up")
  /\ [][(Exhausted /\ loads' = loads) =>
          /\ Exhausted'
          /\ currentIndex' = currentIndex
          /\ swiping' = swiping
          /\ ReqIdx(reqs', "swipe") = ReqIdx(reqs, "swipe")]_vars

Spec == Init /\ [][Next]_vars

\* ------------------------------------------------- EventCard on its own
\* Largest fee an event is given here.
MaxFee == 3

Fees == {Null} \cup {Num(n) : n \in 0..MaxFee}

InitFee ==
  /\ InitPage
  /\ fee \in Fees

\* EventCard({ event }) renders the fee of its event.
RenderEventCard ==
  /\ feeShown = Unrendered
  /\ feeShown' = IF variant = "ui" THEN UiEventCardFee(fee)
                 ELSE FeEventCardFee(fee)
  /\ UNCHANGED <<envVars, mounts, credStore, credWrites, reqs, uiVars,
                 feVars, fee>>

NextFee == RenderEventCard

SpecFee == InitFee /\ [][NextFee]_vars

\* C12 as claimed: a card given fee 0 shows "Free" (or a zero amount), a
\* card given no fee shows nothing for it.
C12_FeeSemantics ==
  feeShown # Unrendered =>
    /\ fee = Num(0) => feeShown \in {Free, Dollar(0)}
    /\ fee = Null => feeShown = Absent
\* ------------------------------------------------- card client, scheduled
\* The card client alone, with the scheduling its run time provides: a
\* decision-recording request that is outstanding settles (its promise
\* resolves or rejects), and a timer that is pending fires.
InitUi == Init /\ variant = "ui"

NextUi ==
  \/ UiMount
  \/ \E i \in DOMAIN reqs : UiValidateOk(i)
  \/ \E i \in DOMAIN reqs, why \in Failures : UiValidateFail(i, why)
  \/ \E i \in DOMAIN reqs, list \in EventLists : UiEventsOk(i, list)
  \/ \E i \in DOMAIN reqs, why \in Failures : UiEventsFail(i, why)
  \/ UiRender
  \/ \E d \in Directions : HandleSwipe(d)
  \/ \E i \in DOMAIN reqs : UiSwipeOk(i)
  \/ UiTimerFire
  \/ \E i \in DOMAIN reqs : UiSwipeFail(i)

SwipeSettles == \E i \in DOMAIN reqs : UiSwipeOk(i) \/ UiSwipeFail(i)

SpecLive ==
  /\ InitUi
  /\ [][NextUi]_vars
  /\ WF_vars(SwipeSettles)
  /\ WF_vars(UiTimerFire)

\* C19: the guard is set only while a decision-recording request is
\* outstanding or a transition timer is pending, and, requests settling and
\* timers firing, a set guard is eventually cleared with swipeDirection
\* back to null.
C19_GuardLiveness ==
  /\ [](swiping => (Pending(reqs, "swipe") # {} \/ timers > 0))
  /\ (swiping ~> (~swiping /\ swipeDirection = "null"))

\* C19 witness: a gesture set the guard, its request has settled, no timer
\* is pending and the guard and the direction are clear again.
C19_Witness ==
  /\ Succeeded(reqs, "swipe") \cup Failed(reqs, "swipe") # {}
  /\ Pending(reqs, "swipe") = {}
  /\ timers = 0
  /\ ~swiping
  /\ swipeDirection = "null"

====
